---- MODULE Spec2Model ----
(***************************************************************************)
(* Focus / FocusScope wrapper widgets of druid (widget/focus.rs,           *)
(* widget/focus_scope.rs) run by a dispatch engine over a widget tree.     *)
(*                                                                         *)
(* A pass is a recursive walk; it is modelled with an explicit call stack: *)
(* a frame with pc = "enter" is a widget whose pass method has just been   *)
(* called, a frame with pc = "ret" is a widget whose child call has just   *)
(* returned.  The wrappers' code before the child call is the *Enter       *)
(* action, the code after it the *Exit action.                             *)
(***************************************************************************)
EXTENDS Integers, Sequences, FiniteSets, TLC

\* ---------------------------------------------------------------- bounds
NumScopes == 2        \* focus scopes of the forest tree
PerScope == 2         \* focusable widgets per scope of the forest tree
MaxDepth == 3         \* wrappers nested in one another in the chain trees
MaxAutoCount == 2     \* the count of automatic requests saturates here
MaxLen == 3           \* glyphs of the longest text buffer
MaxWidth == 3         \* the largest finite wrap width, in glyph advances

\* ------------------------------------------------------------ widget trees
\* A tree is [n, kind, parent, auto]: widgets 1..n numbered in depth-first
\* pre-order, parent 0 for the root.  The widget id of widget w is w.
Last(s) == s[Len(s)]

ForestBlock == 2 + 2 * PerScope

ForestKind(i) ==
    IF i = 1 THEN "Flex"
    ELSE LET r == (i - 2) % ForestBlock
         IN IF r = 0 THEN "Scope"
            ELSE IF r = 1 THEN "Flex"
            ELSE IF r % 2 = 0 THEN "Focus" ELSE "Leaf"

ForestParent(i) ==
    IF i = 1 THEN 0
    ELSE LET r == (i - 2) % ForestBlock
         IN IF r = 0 THEN 1
            ELSE IF r = 1 THEN i - 1
            ELSE IF r % 2 = 0 THEN i - r + 1 ELSE i - 1

\* Flex[ Scope[Flex[Focus[Leaf], Focus[Leaf], ..]], Scope[..], .. ]
Forest ==
    LET n == 1 + NumScopes * ForestBlock
    IN [n |-> n,
        kind |-> [i \in 1..n |-> ForestKind(i)],
        parent |-> [i \in 1..n |-> ForestParent(i)]]

\* wrapper[wrapper[..[Leaf]]]
Chain(ks) ==
    LET n == Len(ks) + 1
    IN [n |-> n,
        kind |-> [i \in 1..n |-> IF i = n THEN "Leaf" ELSE ks[i]],
        parent |-> [i \in 1..n |-> i - 1]]

Chains ==
    {Chain(ks) : ks \in UNION {[1..d -> {"Focus", "Scope"}] : d \in 1..MaxDepth}}

\* Focus[ Flex[ Scope[Focus[Leaf]], Focus[Leaf], Focus[Leaf] ] ]
Mixed ==
    [n |-> 9,
     kind |-> <<"Focus", "Flex", "Scope", "Focus", "Leaf", "Focus", "Leaf",
                "Focus", "Leaf">>,
     parent |-> <<0, 1, 2, 3, 4, 2, 6, 2, 8>>]

Shapes == {Forest, Mixed} \cup Chains

FocusIds(t) == {i \in 1..t.n : t.kind[i] = "Focus"}

SetMax(S) == CHOOSE x \in S : \A y \in S : y <= x

\* with_auto_focus: on no Focus, on all, or on all but the last of the tree
AutoConfigs(t) ==
    LET F == FocusIds(t)
    IN {{}, F} \cup (IF F = {} THEN {} ELSE {F \ {SetMax(F)}})

Trees ==
    UNION {{[n |-> t.n, kind |-> t.kind, parent |-> t.parent,
             auto |-> [i \in 1..t.n |-> i \in a]] : a \in AutoConfigs(t)}
           : t \in Shapes}

\* ------------------------------------------------------------------ state
VARIABLES
    tree,              \* the widget tree (fixed after construction)
    focus_node,        \* Focus.focus_node, per Focus widget
    focus_requested,   \* Focus.focus_requested
    focus_scope_node,  \* FocusScope.focus_scope_node
    ctx_focus_node,    \* ambient focus node   (ctx.focus_node())
    ctx_focus_scope,   \* ambient focus scope  (ctx.focus_scope())
    is_handled,        \* ctx.is_handled of the running event pass
    stack,             \* call stack of the running pass
    phase,             \* "idle" | "run"
    pass,              \* the running (or last) pass: [kind, ev]
    attached,          \* WidgetAdded has been delivered
    registered,        \* focus manager: registered focusables, in order
    owner,             \* focus manager: widget holding focus, 0 = none
    pending,           \* focus manager: the focus request to honour
    lcQueue,           \* engine: focus-change notifications to deliver
    calls,             \* focus-manager calls made during this pass
    paints,            \* widgets that called request_paint in this pass
    submitted,         \* commands submitted during this pass
    visited,           \* widgets whose pass method ran in this pass
    handler,           \* the widget that marked the event handled, 0 = none
    autoCount,         \* automatic focus requests issued so far, per widget
    prevOwner,         \* focus owner when the pass began
    text,              \* a TextLayout: [buffer, layout, width]
    text_log           \* the last TextLayout operation and what it did

vars == <<tree, focus_node, focus_requested, focus_scope_node, ctx_focus_node,
          ctx_focus_scope, is_handled, stack, phase, pass, attached,
          registered, owner, pending, lcQueue, calls, paints, submitted,
          visited, handler, autoCount, prevOwner, text, text_log>>

Widgets == 1..tree.n
Kind(w) == tree.kind[w]

\* FocusNode::empty() and FocusScopeNode { widget_id: None }; 0 is None
EmptyFocusNode == [widget_id |-> 0, is_focused |-> FALSE]
EmptyScopeNode == [widget_id |-> 0]

\* ----------------------------------------------------------------- events
Ev(type, key, mods, id, val) ==
    [type |-> type, key |-> key, mods |-> mods, id |-> id, val |-> val]

NoEv == Ev("None", "", "", 0, FALSE)
MouseDown == Ev("MouseDown", "", "", 0, FALSE)
KeyDown(key, mods) == Ev("KeyDown", key, mods, 0, FALSE)
Command(sel, id) == Ev("Command", sel, "", id, FALSE)
OtherEvent == Ev("Other", "", "", 0, FALSE)
WidgetAdded == Ev("WidgetAdded", "", "", 0, FALSE)
FocusChanged(v) == Ev("FocusChanged", "", "", 0, v)
RouteFocusChanged(target, v) == Ev("Route", "", "", target, v)

Tab == KeyDown("Tab", "None")
ShiftTab == KeyDown("Tab", "Shift")

\* Tab, Shift+Tab and two chords that are neither
KeyEvents == {Tab, ShiftTab, KeyDown("Tab", "Ctrl"), KeyDown("Enter", "None")}

\* payloads of REQUEST_FOCUS: the id of every Focus and of one other widget
Events ==
    {MouseDown, OtherEvent} \cup KeyEvents
        \cup {Command("REQUEST_FOCUS", i) : i \in FocusIds(tree) \cup {tree.n}}
        \cup {Command("OTHER", 0)}

\* ------------------------------------------------------------ TextLayout
\* Lengths and widths are counted in glyph advances and heights in line
\* heights; a text buffer is known by its length.  f64::INFINITY is a width
\* no text reaches.
Infinity == MaxLen + MaxWidth + 1

\* Option<f64> arguments: 0 is None
Widths == 0..MaxWidth
Buffers == 0..MaxLen

\* Option<PietTextLayout>: None, or the text measured at a wrap width
NoLayout == [some |-> FALSE, len |-> 0, wrap |-> 0]
SomeLayout(len, wrap) == [some |-> TRUE, len |-> len, wrap |-> wrap]

\* ---- the text measurement service (piet)
\* TextLayout::line_count: the lines of the text wrapped at l.wrap
LineCount(l) ==
    IF l.len = 0 THEN 1 ELSE (l.len + l.wrap - 1) \div l.wrap

\* TextLayout::width: the width of the widest line
LayoutWidth(l) == IF l.len <= l.wrap THEN l.len ELSE l.wrap

\* TextLayout::line_metric(n): lines are numbered from 0; None past the last
LineMetric(l, n) ==
    IF n < LineCount(l)
    THEN [some |-> TRUE, cumulative_height |-> n + 1]
    ELSE [some |-> FALSE, cumulative_height |-> 0]

\* TextLayout::update_width: the same measurement wrapped at another width
Rewrapped(l, width) == [l EXCEPT !.wrap = width]

\* ---- text/text_layout.rs
\* width.into().unwrap_or(f64::INFINITY)
WidthOrInfinity_Zero(w) == w

WidthOrInfinity(w) == IF w = 0 THEN Infinity ELSE w

\* layout_for_buffer that goes on after a font that did not resolve
LayoutForBuffer_IgnoresFont(buffer, font_ok, build_ok, width) ==
    IF build_ok THEN SomeLayout(buffer, width) ELSE NoLayout

\* layout_for_buffer: None when the font does not resolve (.ok()?) or the
\* layout cannot be built (.ok())
LayoutForBuffer(buffer, font_ok, build_ok, width) ==
    IF font_ok /\ build_ok THEN SomeLayout(buffer, width) ELSE NoLayout

\* update_buffer measuring without wrapping
MeasureWidth_Unwrapped(t) == Infinity

\* update_buffer measures at self.width
MeasureWidth(t) == t.width

Size2(w, h) == [width |-> w, height |-> h]
SizeZero == Size2(0, 0)

\* TextLayout::size
SizeOf(t) ==
    IF t.layout.some
    THEN LET m == LineMetric(t.layout, LineCount(t.layout))
         IN Size2(LayoutWidth(t.layout),
                  IF m.some THEN m.cumulative_height ELSE 0)
    ELSE SizeZero

\* a read that takes the layout out of the TextLayout
AfterRead_TakesLayout(t) == [t EXCEPT !.layout = NoLayout]

\* TextLayout::draw and TextLayout::size borrow &self
AfterRead(t) == t

\* impl Default for TextLayout
DefaultTextLayout == [buffer |-> 0, layout |-> NoLayout, width |-> Infinity]

NoSize == [some |-> FALSE, val |-> SizeZero]

\* what the last operation was given, what it found and what it did
NoTextOp ==
    [op |-> "none", pre |-> DefaultTextLayout, buffer |-> 0, width |-> 0,
     failed |-> FALSE,      \* the measurement of new / update_buffer failed
     panicked |-> FALSE,    \* the operation panicked
     drew |-> FALSE,        \* ctx.draw_text was called
     result |-> SizeZero,   \* what size() returned
     empty_since |-> FALSE, \* a measurement failed and none succeeded since
     stored |-> Infinity,   \* the width most recently handed in
     stored_by |-> "default", \* and the operation it was handed to
     again |-> FALSE,       \* size() was called before, since the last update
     wrapped |-> FALSE,     \* update_width wrapped a one-line measurement
     seen |-> NoSize,       \* what size() returned since the last update
     agree |-> TRUE]        \* size() returned what it returned before

TextReady == phase = "idle" /\ ~attached /\ ~text_log.panicked

FocusVars == <<tree, focus_node, focus_requested, focus_scope_node,
               ctx_focus_node, ctx_focus_scope, is_handled, stack, phase,
               pass, attached, registered, owner, pending, lcQueue, calls,
               paints, submitted, visited, handler, autoCount, prevOwner>>

\* TextLayout::new
TextNew ==
    /\ TextReady
    /\ \E buffer \in Buffers, w \in Widths, font_ok \in BOOLEAN, build_ok \in BOOLEAN :
         LET width == WidthOrInfinity(w)
             layout == LayoutForBuffer(buffer, font_ok, build_ok, width)
         IN /\ text' = [buffer |-> buffer, layout |-> layout, width |-> width]
            /\ text_log' = [NoTextOp EXCEPT
                   !.op = "new", !.pre = text, !.buffer = buffer, !.width = w,
                   !.failed = ~(font_ok /\ build_ok),
                   !.empty_since = ~(font_ok /\ build_ok),
                   !.stored = WidthOrInfinity(w), !.stored_by = "new"]
    /\ UNCHANGED FocusVars

\* TextLayout::update_buffer
TextUpdateBuffer ==
    /\ TextReady
    /\ \E buffer \in Buffers, font_ok \in BOOLEAN, build_ok \in BOOLEAN :
         LET layout == LayoutForBuffer(buffer, font_ok, build_ok, MeasureWidth(text))
         IN /\ text' = [text EXCEPT !.layout = layout, !.buffer = buffer]
            /\ text_log' = [NoTextOp EXCEPT
                   !.op = "update_buffer", !.pre = text, !.buffer = buffer,
                   !.failed = ~(font_ok /\ build_ok),
                   !.empty_since = ~(font_ok /\ build_ok),
                   !.stored = text_log.stored,
                   !.stored_by = text_log.stored_by]
    /\ UNCHANGED FocusVars

\* TextLayout::update_width: layout.update_width(..).unwrap() panics when the
\* measurement service reports an error
TextUpdateWidth ==
    /\ TextReady
    /\ \E w \in Widths, ok \in BOOLEAN :
         LET width == WidthOrInfinity(w)
         IN /\ ~text.layout.some => ok
            /\ text' = [text EXCEPT
                   !.width = width,
                   !.layout = IF text.layout.some /\ ok
                              THEN Rewrapped(text.layout, width) ELSE @]
            /\ text_log' = [NoTextOp EXCEPT
                   !.op = "update_width", !.pre = text, !.width = w,
                   !.panicked = text.layout.some /\ ~ok,
                   !.empty_since = text_log.empty_since,
                   !.stored = WidthOrInfinity(w),
                   !.stored_by = IF text.layout.some THEN "rewrap" ELSE "update_width",
                   !.wrapped = /\ text.layout.some /\ ok
                               /\ LineCount(text.layout) = 1
                               /\ LineCount(Rewrapped(text.layout, width)) > 1]
    /\ UNCHANGED FocusVars

\* TextLayout::draw
TextDraw ==
    /\ TextReady
    /\ text' = AfterRead(text)
    /\ text_log' = [text_log EXCEPT
           !.op = "draw", !.pre = text, !.failed = FALSE,
           !.drew = text.layout.some]
    /\ UNCHANGED FocusVars

\* TextLayout::size
TextSize ==
    /\ TextReady
    /\ text' = AfterRead(text)
    /\ text_log' = [text_log EXCEPT
           !.op = "size", !.pre = text, !.failed = FALSE, !.drew = FALSE,
           !.result = SizeOf(text),
           !.seen = [some |-> TRUE, val |-> SizeOf(text)],
           !.again = text_log.seen.some,
           !.agree = text_log.seen.some => text_log.seen.val = SizeOf(text)]
    /\ UNCHANGED FocusVars

\* ------------------------------------------------------------ the engine
RECURSIVE SortedSeq(_)
SortedSeq(S) ==
    IF S = {} THEN <<>>
    ELSE LET m == CHOOSE x \in S : \A y \in S : x <= y
         IN <<m>> \o SortedSeq(S \ {m})

\* the children of a widget, in order
Kids(w) == SortedSeq({c \in Widgets : tree.parent[c] = w})

Frame(w, ev) ==
    [w |-> w, pc |-> "enter", ev |-> ev,
     prev_fn |-> EmptyFocusNode,      \* local previous_focus_node
     prev_sc |-> EmptyScopeNode,      \* local previous_focus_scope
     call_fn |-> EmptyFocusNode,      \* ambient context at the moment this
     call_sc |-> EmptyScopeNode,      \*   widget called its child
     kid |-> 0, last |-> 0]

Top == stack[Len(stack)]
Pop == SubSeq(stack, 1, Len(stack) - 1)
Running(k) == phase = "run" /\ stack # <<>> /\ Kind(Top.w) = k

\* the event a widget's pass method receives from its parent: a routed
\* focus-change notification reaches its target as FocusChanged(v)
ChildEv(ev, c) ==
    IF ev.type = "Route" /\ ev.id = c THEN FocusChanged(ev.val) ELSE ev

\* replace the top frame by f and call widget c with event ev
\* under the ambient context <<fn, sc>>; f waits for the call to return
CallChild(f, c, ev, fn, sc) ==
    Pop \o <<[f EXCEPT !.pc = "wait", !.call_fn = fn, !.call_sc = sc],
             Frame(c, ChildEv(ev, c))>>

\* the callee returns: its frame goes, the caller resumes after the call
Return ==
    IF Len(stack) = 1 THEN <<>>
    ELSE SubSeq(stack, 1, Len(stack) - 2)
             \o <<[stack[Len(stack) - 1] EXCEPT !.pc = "ret"]>>

Call(w, op, auto) == [w |-> w, op |-> op, auto |-> auto, handled |-> is_handled]

NoRequest == [op |-> "none", id |-> 0]

\* ---- focus manager
RegIds == [i \in 1..Len(registered) |-> registered[i].id]
RegScope(o) ==
    LET S == {i \in 1..Len(registered) : registered[i].id = o}
    IN IF S = {} THEN 0 ELSE registered[CHOOSE i \in S : TRUE].scope

\* the registered focusables sharing the scope of widget o, in order
ScopeList(o) ==
    LET sel == SelectSeq(registered, LAMBDA r : r.scope = RegScope(o))
    IN [i \in 1..Len(sel) |-> sel[i].id]

IndexOf(s, x) == CHOOSE i \in 1..Len(s) : s[i] = x

NextIn(s, x) == s[(IndexOf(s, x) % Len(s)) + 1]
PrevIn(s, x) == s[((IndexOf(s, x) + Len(s) - 2) % Len(s)) + 1]

\* only the most recent request of the pass is honoured
NewOwner ==
    IF pending.op = "focus" THEN pending.id
    ELSE IF pending.op \in {"next", "prev"}
            /\ owner # 0 /\ owner \in {RegIds[i] : i \in 1..Len(RegIds)}
         THEN IF pending.op = "next" THEN NextIn(ScopeList(owner), owner)
                                     ELSE PrevIn(ScopeList(owner), owner)
    ELSE owner

\* the owner that loses focus is told first, then the one that gains it
Notifications(old, new) ==
    IF old = new THEN <<>>
    ELSE (IF old = 0 THEN <<>> ELSE <<RouteFocusChanged(old, FALSE)>>)
         \o (IF new = 0 THEN <<>> ELSE <<RouteFocusChanged(new, TRUE)>>)

Init ==
    /\ tree \in Trees
    /\ focus_node = [w \in 1..tree.n |-> EmptyFocusNode]
    /\ focus_requested = [w \in 1..tree.n |-> FALSE]
    /\ focus_scope_node = [w \in 1..tree.n |-> EmptyScopeNode]
    /\ ctx_focus_node = EmptyFocusNode
    /\ ctx_focus_scope = EmptyScopeNode
    /\ is_handled = FALSE
    /\ stack = <<>>
    /\ phase = "idle"
    /\ pass = [kind |-> "none", ev |-> NoEv]
    /\ attached = FALSE
    /\ registered = <<>>
    /\ owner = 0
    /\ pending = NoRequest
    /\ lcQueue = <<>>
    /\ calls = <<>>
    /\ paints = {}
    /\ submitted = <<>>
    /\ visited = {}
    /\ handler = 0
    /\ autoCount = [w \in 1..tree.n |-> 0]
    /\ prevOwner = 0
    /\ text = DefaultTextLayout
    /\ text_log = NoTextOp

\* the engine starts a pass at the root
Begin(kind, ev) ==
    /\ phase = "idle"
    /\ phase' = "run"
    /\ pass' = [kind |-> kind, ev |-> ev]
    /\ stack' = <<Frame(1, ChildEv(ev, 1))>>
    /\ is_handled' = FALSE
    /\ calls' = <<>>
    /\ paints' = {}
    /\ submitted' = <<>>
    /\ visited' = {}
    /\ handler' = 0
    /\ prevOwner' = owner
    /\ pending' = NoRequest
    /\ UNCHANGED <<text, text_log, tree, focus_node, focus_requested, focus_scope_node,
                   ctx_focus_node, ctx_focus_scope, registered, owner,
                   autoCount>>

\* the tree is attached: WidgetAdded is the first pass every widget sees
BeginAttach ==
    /\ ~attached
    /\ attached' = TRUE
    /\ UNCHANGED lcQueue
    /\ Begin("lifecycle", WidgetAdded)

\* a pending focus-change notification is delivered before anything else
BeginNotify ==
    /\ attached /\ lcQueue # <<>>
    /\ lcQueue' = Tail(lcQueue)
    /\ UNCHANGED attached
    /\ Begin("lifecycle", Head(lcQueue))

BeginEvent ==
    /\ attached /\ lcQueue = <<>>
    /\ UNCHANGED <<attached, lcQueue>>
    /\ \E ev \in Events : Begin("event", ev)

BeginOther ==
    /\ attached /\ lcQueue = <<>>
    /\ UNCHANGED <<attached, lcQueue>>
    /\ \E k \in {"update", "layout", "paint"} : Begin(k, NoEv)

\* the pass is over: the focus manager honours the pending request
EndPass ==
    /\ phase = "run" /\ stack = <<>>
    /\ phase' = "idle"
    /\ owner' = NewOwner
    /\ lcQueue' = lcQueue \o Notifications(owner, NewOwner)
    /\ pending' = NoRequest
    /\ UNCHANGED <<text, text_log, tree, focus_node, focus_requested, focus_scope_node,
                   ctx_focus_node, ctx_focus_scope, is_handled, stack, pass,
                   attached, registered, calls, paints, submitted, visited,
                   handler, autoCount, prevOwner>>

\* WidgetPod::event does not deliver an event that is already handled
PodSkip ==
    /\ phase = "run" /\ stack # <<>>
    /\ Top.pc = "enter" /\ pass.kind = "event" /\ is_handled
    /\ stack' = Return
    /\ UNCHANGED <<text, text_log, tree, focus_node, focus_requested, focus_scope_node,
                   ctx_focus_node, ctx_focus_scope, is_handled, phase, pass,
                   attached, registered, owner, pending, lcQueue, calls,
                   paints, submitted, visited, handler, autoCount, prevOwner>>

Delivered == ~(pass.kind = "event" /\ is_handled)

\* a container: every event and pass goes to each child in turn
FlexEnter ==
    /\ Running("Flex") /\ Top.pc = "enter" /\ Delivered
    /\ visited' = visited \cup {Top.w}
    /\ LET ks == Kids(Top.w)
       IN stack' = CallChild([Top EXCEPT !.kid = 1, !.last = Len(ks)],
                             ks[1], Top.ev, ctx_focus_node, ctx_focus_scope)
    /\ UNCHANGED <<text, text_log, tree, focus_node, focus_requested, focus_scope_node,
                   ctx_focus_node, ctx_focus_scope, is_handled, phase, pass,
                   attached, registered, owner, pending, lcQueue, calls,
                   paints, submitted, handler, autoCount, prevOwner>>

FlexNext ==
    /\ Running("Flex") /\ Top.pc = "ret"
    /\ IF Top.kid < Top.last
       THEN stack' = CallChild([Top EXCEPT !.kid = Top.kid + 1],
                               Kids(Top.w)[Top.kid + 1], Top.ev,
                               ctx_focus_node, ctx_focus_scope)
       ELSE stack' = Return
    /\ UNCHANGED <<text, text_log, tree, focus_node, focus_requested, focus_scope_node,
                   ctx_focus_node, ctx_focus_scope, is_handled, phase, pass,
                   attached, registered, owner, pending, lcQueue, calls,
                   paints, submitted, visited, handler, autoCount, prevOwner>>

\* a leaf widget: it may mark the event handled
LeafVisit ==
    /\ Running("Leaf") /\ Top.pc = "enter" /\ Delivered
    /\ visited' = visited \cup {Top.w}
    /\ \E h \in BOOLEAN :
         /\ h => pass.kind = "event"
         /\ is_handled' = h
         /\ handler' = IF h THEN Top.w ELSE handler
    /\ stack' = Return
    /\ UNCHANGED <<text, text_log, tree, focus_node, focus_requested, focus_scope_node,
                   ctx_focus_node, ctx_focus_scope, phase, pass, attached,
                   registered, owner, pending, lcQueue, calls, paints,
                   submitted, autoCount, prevOwner>>

\* ------------------------------------------------------------ FocusScope
\* a FocusScope that never records its identity
ScopeLifecycleNode_NoId(w, ev) == focus_scope_node[w]

\* FocusScope::lifecycle: WidgetAdded records the wrapper's identity
ScopeLifecycleNode(w, ev) ==
    IF ev.type = "WidgetAdded" THEN [widget_id |-> w] ELSE focus_scope_node[w]

\* the wrapper leaving its own scope node installed
RestoredScope_OwnNode(f) == focus_scope_node[f.w]

\* ctx.set_focus_scope_node(previous_focus_scope)
RestoredScope(f) == f.prev_sc

\* the code of FocusScope::event/lifecycle/update/layout/paint up to the
\* call of the child's pass method
FocusScopeEnter ==
    /\ Running("Scope") /\ Top.pc = "enter" /\ Delivered
    /\ visited' = visited \cup {Top.w}
    /\ LET w == Top.w
           node == IF pass.kind = "lifecycle" THEN ScopeLifecycleNode(w, Top.ev)
                   ELSE focus_scope_node[w]
           child == Kids(w)[1]
       IN /\ focus_scope_node' = [focus_scope_node EXCEPT ![w] = node]
          /\ IF pass.kind = "layout"
             THEN \* child.layout runs before the scope is installed
                  /\ ctx_focus_scope' = ctx_focus_scope
                  /\ stack' = CallChild([Top EXCEPT !.kid = 1], child, Top.ev,
                                        ctx_focus_node, ctx_focus_scope)
             ELSE /\ ctx_focus_scope' = node
                  /\ stack' = CallChild([Top EXCEPT !.prev_sc = ctx_focus_scope,
                                                     !.kid = 1],
                                        child, Top.ev, ctx_focus_node, node)
    /\ UNCHANGED <<text, text_log, tree, focus_node, focus_requested, ctx_focus_node,
                   is_handled, phase, pass, attached, registered, owner,
                   pending, lcQueue, calls, paints, submitted, handler,
                   autoCount, prevOwner>>

\* the code after the child's pass method returned
FocusScopeExit ==
    /\ Running("Scope") /\ Top.pc = "ret"
    /\ IF pass.kind = "layout"
       THEN \* save, install, set_layout_rect, restore
            LET f == [Top EXCEPT !.prev_sc = ctx_focus_scope]
            IN ctx_focus_scope' = RestoredScope(f)
       ELSE ctx_focus_scope' = RestoredScope(Top)
    /\ stack' = Return
    /\ UNCHANGED <<text, text_log, tree, focus_node, focus_requested, focus_scope_node,
                   ctx_focus_node, is_handled, phase, pass, attached,
                   registered, owner, pending, lcQueue, calls, paints,
                   submitted, visited, handler, autoCount, prevOwner>>

\* ----------------------------------------------------------------- Focus
\* the automatic request without the auto_focus test
AutoFocusDue_AnyWidget(w) == ~focus_requested[w]

\* the automatic request without the focus_requested test
AutoFocusDue_EveryPass(w) == tree.auto[w]

\* if self.auto_focus && !self.focus_requested
AutoFocusDue(w) == tree.auto[w] /\ ~focus_requested[w]

HotKeyMatches(mods, key, ke) == ke.key = key /\ ke.mods = mods

\* Tab and Shift+Tab exchanged
KeyReaction_Swapped(ke) ==
    IF HotKeyMatches("None", "Tab", ke) THEN "focus_prev"
    ELSE IF HotKeyMatches("Shift", "Tab", ke) THEN "focus_next"
    ELSE "none"

\* the first arm matching Tab under any modifiers
KeyReaction_AnyMods(ke) ==
    IF ke.key = "Tab" THEN "focus_next"
    ELSE IF HotKeyMatches("Shift", "Tab", ke) THEN "focus_prev"
    ELSE "none"

\* the inner match of Focus::event on the key chord
KeyReaction(ke) ==
    IF HotKeyMatches("None", "Tab", ke) THEN "focus_next"
    ELSE IF HotKeyMatches("Shift", "Tab", ke) THEN "focus_prev"
    ELSE "none"

\* the match without its MouseDown arm
EventReaction_NoPointer(w, ev, handled) ==
    IF ev.type = "KeyDown" /\ ~handled
         THEN [op |-> KeyReaction(ev), paint |-> TRUE]
    ELSE IF ev.type = "Command" /\ ev.key = "REQUEST_FOCUS" /\ ev.id = w
         THEN [op |-> "request_focus", paint |-> TRUE]
    ELSE [op |-> "none", paint |-> FALSE]

\* the KeyDown arm without its is_handled guard
EventReaction_Ungated(w, ev, handled) ==
    IF ev.type = "MouseDown" THEN [op |-> "request_focus", paint |-> TRUE]
    ELSE IF ev.type = "KeyDown"
         THEN [op |-> KeyReaction(ev), paint |-> TRUE]
    ELSE IF ev.type = "Command" /\ ev.key = "REQUEST_FOCUS" /\ ev.id = w
         THEN [op |-> "request_focus", paint |-> TRUE]
    ELSE [op |-> "none", paint |-> FALSE]

\* the match of Focus::event after the child returned: the focus-manager
\* call it makes and whether it requests a repaint
EventReaction(w, ev, handled) ==
    IF ev.type = "MouseDown" THEN [op |-> "request_focus", paint |-> TRUE]
    ELSE IF ev.type = "KeyDown" /\ ~handled
         THEN [op |-> KeyReaction(ev), paint |-> TRUE]
    ELSE IF ev.type = "Command" /\ ev.key = "REQUEST_FOCUS" /\ ev.id = w
         THEN [op |-> "request_focus", paint |-> TRUE]
    ELSE [op |-> "none", paint |-> FALSE]

\* the request a focus-manager call leaves with the focus manager
Requested(op, w) ==
    IF op = "request_focus" THEN [op |-> "focus", id |-> w]
    ELSE IF op = "focus_next" THEN [op |-> "next", id |-> 0]
    ELSE IF op = "focus_prev" THEN [op |-> "prev", id |-> 0]
    ELSE pending

\* the match taking a notification routed to another widget for its own
LifecycleNode_OnRoute(w, ev) ==
    IF ev.type = "WidgetAdded" THEN [focus_node[w] EXCEPT !.widget_id = w]
    ELSE IF ev.type \in {"FocusChanged", "Route"}
         THEN [focus_node[w] EXCEPT !.is_focused = ev.val]
    ELSE focus_node[w]

\* the match of Focus::lifecycle: the wrapper's FocusNode afterwards
LifecycleNode(w, ev) ==
    IF ev.type = "WidgetAdded" THEN [focus_node[w] EXCEPT !.widget_id = w]
    ELSE IF ev.type = "FocusChanged" THEN [focus_node[w] EXCEPT !.is_focused = ev.val]
    ELSE focus_node[w]

\* the ambient node installed before the match updated self.focus_node
LifecycleAmbient_Stale(w, ev) == focus_node[w]

\* ctx.set_focus_node(self.focus_node) before child.lifecycle
LifecycleAmbient(w, ev) == LifecycleNode(w, ev)

\* register_for_focus called before the wrapper's node is installed
RegistrationAmbient_Caller(w, ev) == ctx_focus_node

\* the ambient focus node at ctx.register_for_focus(): self.focus_node, with
\* the identity just recorded, was installed on the line before
RegistrationAmbient(w, ev) == LifecycleNode(w, ev)

\* the wrapper leaving its own node installed
RestoredFocusNode_OwnNode(f) == focus_node[f.w]

\* ctx.set_focus_node(previous_focus_node)
RestoredFocusNode(f) == f.prev_fn

Inc(n) == IF n < MaxAutoCount THEN n + 1 ELSE n

\* Focus::event up to the call of child.event
FocusEnterEvent(w) ==
    /\ ctx_focus_node' = focus_node[w]
    /\ IF AutoFocusDue(w)
       THEN /\ focus_requested' = [focus_requested EXCEPT ![w] = TRUE]
            /\ pending' = Requested("request_focus", w)
            /\ calls' = Append(calls, Call(w, "request_focus", TRUE))
            /\ autoCount' = [autoCount EXCEPT ![w] = Inc(autoCount[w])]
       ELSE UNCHANGED <<focus_requested, pending, calls, autoCount>>
    /\ stack' = CallChild([Top EXCEPT !.prev_fn = ctx_focus_node, !.kid = 1],
                          Kids(w)[1], Top.ev, focus_node[w], ctx_focus_scope)
    /\ UNCHANGED <<focus_node, registered, paints, submitted>>

\* Focus::lifecycle up to the call of child.lifecycle
FocusEnterLifecycle(w) ==
    LET ev == Top.ev
        node == LifecycleNode(w, ev)
        ambient == LifecycleAmbient(w, ev)
    IN /\ focus_node' = [focus_node EXCEPT ![w] = node]
       /\ ctx_focus_node' = ambient
       /\ IF ev.type = "WidgetAdded"
          THEN /\ registered' = Append(registered,
                                       [id |-> w, scope |-> ctx_focus_scope.widget_id,
                                        node |-> RegistrationAmbient(w, ev)])
               /\ calls' = Append(calls, Call(w, "register_for_focus", FALSE))
          ELSE UNCHANGED <<registered, calls>>
       /\ IF ev.type = "FocusChanged"
          THEN /\ submitted' = Append(submitted,
                                      [by |-> w, sel |-> "FOCUS_NODE_FOCUS_CHANGED",
                                       val |-> ev.val, to |-> w])
               /\ paints' = paints \cup {w}
          ELSE UNCHANGED <<submitted, paints>>
       /\ stack' = CallChild([Top EXCEPT !.prev_fn = ctx_focus_node, !.kid = 1],
                             Kids(w)[1], ev, ambient, ctx_focus_scope)
       /\ UNCHANGED <<focus_requested, pending, autoCount>>

\* Focus::update/layout/paint up to the call of the child's pass method
FocusEnterOther(w) ==
    /\ ctx_focus_node' = focus_node[w]
    /\ stack' = CallChild([Top EXCEPT !.prev_fn = ctx_focus_node, !.kid = 1],
                          Kids(w)[1], Top.ev, focus_node[w], ctx_focus_scope)
    /\ UNCHANGED <<focus_node, focus_requested, registered, pending, calls,
                   paints, submitted, autoCount>>

FocusEnter ==
    /\ Running("Focus") /\ Top.pc = "enter" /\ Delivered
    /\ visited' = visited \cup {Top.w}
    /\ IF pass.kind = "event" THEN FocusEnterEvent(Top.w)
       ELSE IF pass.kind = "lifecycle" THEN FocusEnterLifecycle(Top.w)
       ELSE FocusEnterOther(Top.w)
    /\ UNCHANGED <<text, text_log, tree, focus_scope_node, ctx_focus_scope, is_handled, phase,
                   pass, attached, owner, lcQueue, handler, prevOwner>>

\* the code of Focus::event/lifecycle/update/layout/paint after the child's
\* pass method returned
FocusExit ==
    /\ Running("Focus") /\ Top.pc = "ret"
    /\ LET w == Top.w
           r == IF pass.kind = "event" THEN EventReaction(w, Top.ev, is_handled)
                ELSE [op |-> "none", paint |-> FALSE]
       IN /\ pending' = Requested(r.op, w)
          /\ calls' = IF r.op = "none" THEN calls
                      ELSE Append(calls, Call(w, r.op, FALSE))
          /\ paints' = IF r.paint THEN paints \cup {w} ELSE paints
    /\ ctx_focus_node' = RestoredFocusNode(Top)
    /\ stack' = Return
    /\ UNCHANGED <<text, text_log, tree, focus_node, focus_requested, focus_scope_node,
                   ctx_focus_scope, is_handled, phase, pass, attached,
                   registered, owner, lcQueue, submitted, visited, handler,
                   autoCount, prevOwner>>

\* ---------------------------------------------------------- specification
Next ==
    \/ BeginAttach
    \/ BeginNotify
    \/ BeginEvent
    \/ BeginOther
    \/ EndPass
    \/ PodSkip
    \/ FlexEnter
    \/ FlexNext
    \/ LeafVisit
    \/ FocusScopeEnter
    \/ FocusScopeExit
    \/ FocusEnter
    \/ FocusExit

Spec == Init /\ [][Next]_vars

\* the operations of a TextLayout, beside a widget tree that is not run
TextInit == Init /\ tree.n = 2 /\ tree.kind[1] = "Focus" /\ ~tree.auto[1]

TextNext ==
    \/ TextNew
    \/ TextUpdateBuffer
    \/ TextUpdateWidth
    \/ TextDraw
    \/ TextSize

SpecText == TextInit /\ [][TextNext]_vars

\* ------------------------------------------------------ claims: vocabulary
Wrappers == {"Focus", "Scope"}
IsWrapper(w) == Kind(w) \in Wrappers

\* the innermost FocusScope enclosing widget w in the tree, 0 if none
RECURSIVE ScopeOf(_)
ScopeOf(w) ==
    LET p == tree.parent[w]
    IN IF p = 0 THEN 0 ELSE IF Kind(p) = "Scope" THEN p ELSE ScopeOf(p)

RECURSIVE IsAncestor(_, _)
IsAncestor(a, w) ==
    LET p == tree.parent[w]
    IN IF p = 0 THEN FALSE ELSE p = a \/ IsAncestor(a, p)

\* the Focus widgets of scope s in depth-first pre-order
FocusablesIn(s) == SortedSeq({w \in FocusIds(tree) : ScopeOf(w) = s})

ScopeIds == {w \in Widgets : Kind(w) = "Scope"}
AutoIds == {w \in FocusIds(tree) : tree.auto[w]}

OnStack(w) == \E i \in 1..Len(stack) : stack[i].w = w
\* the pass method of w ran and returned in this pass
Returned(w) == w \in visited /\ ~OnStack(w)
\* the widget whose pass method has just returned to the top frame
ReturnedChild == Kids(Top.w)[Top.kid]

EventDone == phase = "idle" /\ pass.kind = "event"
CallsBy(w) == {k \in 1..Len(calls) : calls[k].w = w}
ManualCallsBy(w) == {k \in CallsBy(w) : ~calls[k].auto}

\* ------------------------------------------------------------------ C1
\* C1: when the pass method of a Focus or FocusScope returns, in any pass and
\* at any nesting depth, the ambient focus node and the ambient focus scope
\* are the ones its caller had at the moment of the call.
C1_ContextRestored ==
    /\ (phase = "run" /\ stack # <<>> /\ Top.pc = "ret" /\ IsWrapper(ReturnedChild))
           => /\ ctx_focus_node = Top.call_fn
              /\ ctx_focus_scope = Top.call_sc
    /\ (phase = "run" /\ stack = <<>> /\ IsWrapper(1))
           => /\ ctx_focus_node = EmptyFocusNode
              /\ ctx_focus_scope = EmptyScopeNode

\* a wrapper nested in two wrappers has returned from an event its
\* descendant marked handled
C1_Witness ==
    /\ phase = "run" /\ Len(stack) >= 2 /\ Top.pc = "ret"
    /\ pass.kind = "event" /\ is_handled
    /\ IsWrapper(ReturnedChild) /\ IsWrapper(Top.w)
    /\ IsWrapper(stack[Len(stack) - 1].w)
    /\ Kind(ReturnedChild) # Kind(Top.w)

\* ------------------------------------------------------------------ C2
\* C2: when the request honoured at the end of an event pass is a focus_next
\* or focus_prev and a widget held focus, the new focus owner lies in the
\* same focus scope of the tree as the previous one.
C2_ScopeContainment ==
    (EventDone /\ calls # <<>> /\ Last(calls).op \in {"focus_next", "focus_prev"}
        /\ prevOwner # 0)
    => owner # 0 /\ ScopeOf(owner) = ScopeOf(prevOwner)

\* Tab or Shift+Tab moved focus in a tree of at least two scopes with at
\* least two focusables each
C2_Witness ==
    /\ EventDone /\ calls # <<>> /\ Last(calls).op \in {"focus_next", "focus_prev"}
    /\ prevOwner # 0 /\ owner # prevOwner
    /\ Cardinality(ScopeIds) >= 2
    /\ \A s \in ScopeIds : Len(FocusablesIn(s)) >= 2
    /\ ScopeOf(owner) # 0

\* ------------------------------------------------------------------ C3
\* C3: an unhandled Tab with focus on the last focusable of its scope (in
\* depth-first pre-order) gives focus to the first focusable of that scope,
\* and an unhandled Shift+Tab with focus on the first gives it to the last.
C3_TabWraparound ==
    (EventDone /\ ~is_handled /\ prevOwner # 0)
    => LET L == FocusablesIn(ScopeOf(prevOwner))
       IN /\ (pass.ev = Tab /\ prevOwner = Last(L)) => owner = L[1]
          /\ (pass.ev = ShiftTab /\ prevOwner = L[1]) => owner = Last(L)

\* Tab wrapped from the last of three focusables to the first
C3_Witness ==
    /\ EventDone /\ ~is_handled /\ pass.ev = Tab /\ prevOwner # 0
    /\ Len(FocusablesIn(ScopeOf(prevOwner))) >= 3
    /\ prevOwner = Last(FocusablesIn(ScopeOf(prevOwner)))
    /\ owner = FocusablesIn(ScopeOf(prevOwner))[1]

\* ------------------------------------------------------------------ C4
\* the auto_focus wrapper that comes last in traversal order
LastAuto == SetMax(AutoIds)

\* an event no Focus wrapper answers with a focus-manager call of its own
NoReactionEvent(ev) ==
    /\ ev.type # "MouseDown"
    /\ ~(ev.type = "KeyDown" /\ KeyReaction(ev) # "none")
    /\ ~(ev.type = "Command" /\ ev.key = "REQUEST_FOCUS" /\ ev.id \in FocusIds(tree))

ScopeFrames == {i \in 1..Len(stack) : Kind(stack[i].w) = "Scope" /\ stack[i].pc = "wait"}

\* C6: in every pass, while the child of a FocusScope runs the pass (and no
\* FocusScope nested deeper has installed its own), the ambient scope is the
\* node of that FocusScope.
C6_ScopeInstalledForChild ==
    (phase = "run" /\ attached /\ ScopeFrames # {}
        /\ ~(Kind(Top.w) = "Scope" /\ Top.pc = "ret"))
    => LET i == SetMax(ScopeFrames)
       IN /\ ctx_focus_scope = focus_scope_node[stack[i].w]
          /\ ctx_focus_scope.widget_id = stack[i].w

\* ------------------------------------------------------------------ C7
\* C7 as stated: a Focus wrapper makes no focus-manager call of its own for
\* an event a descendant has marked handled.
C7_NoCallWhenHandled ==
    \A k \in 1..Len(calls) : ~calls[k].auto => ~calls[k].handled

\* C7 amended: only the key chords are gated: for a handled KeyDown the
\* wrapper makes no focus_next, focus_prev or request_focus of its own; a
\* pointer press, and a REQUEST_FOCUS message carrying its id, make it call
\* request_focus whether or not the event is handled.
C7_OnlyKeysGated ==
    /\ \A k \in 1..Len(calls) :
         calls[k].op \in {"focus_next", "focus_prev"} => ~calls[k].handled
    /\ pass.ev.type = "KeyDown" =>
         \A k \in 1..Len(calls) : ~calls[k].auto => ~calls[k].handled
    /\ \A w \in FocusIds(tree) :
         (pass.kind = "event" /\ Returned(w)
            /\ (pass.ev.type = "MouseDown"
                  \/ pass.ev = Command("REQUEST_FOCUS", w)))
         => \E k \in ManualCallsBy(w) : calls[k].op = "request_focus"

\* a Focus wrapper returned from a Tab that its descendant marked handled
C7_Witness ==
    /\ pass.kind = "event" /\ pass.ev = Tab /\ is_handled
    /\ \E w \in FocusIds(tree) :
         Returned(w) /\ IsAncestor(w, handler) /\ ManualCallsBy(w) = {}

\* ------------------------------------------------------------------ C8
\* C8: an unhandled Tab moves focus from its owner to the next focusable of
\* the owner's scope in depth-first pre-order (wrapping), and an unhandled
\* Shift+Tab to the previous one, whatever the nesting of Focus wrappers.
C8_TabAdvancesByOne ==
    (EventDone /\ ~is_handled /\ prevOwner # 0)
    => LET L == FocusablesIn(ScopeOf(prevOwner))
       IN /\ pass.ev = Tab => owner = NextIn(L, prevOwner)
          /\ pass.ev = ShiftTab => owner = PrevIn(L, prevOwner)

\* Shift+Tab moved focus back by one among three focusables of one scope, two of
\* them Focus wrappers that both received the key
C8_Witness ==
    /\ EventDone /\ ~is_handled /\ pass.ev = ShiftTab /\ prevOwner # 0
    /\ Len(FocusablesIn(ScopeOf(prevOwner))) >= 3
    /\ owner = PrevIn(FocusablesIn(ScopeOf(prevOwner)), prevOwner)
    /\ IsAncestor(owner, prevOwner)
    /\ Cardinality({k \in 1..Len(calls) : calls[k].op = "focus_prev"}) >= 2

\* ------------------------------------------------------------------ C9
UnmatchedKey(ev) == ev.type = "KeyDown" /\ ev # Tab /\ ev # ShiftTab

\* C9: a Focus wrapper makes no focus-manager call and requests no repaint
\* for a KeyDown that is neither Tab nor Shift+Tab, nor for a REQUEST_FOCUS
\* message carrying another widget's id; for one carrying its own id it
\* requests focus and a repaint.
C9_UnexpectedInputIgnored ==
    \A w \in FocusIds(tree) :
        (pass.kind = "event" /\ Returned(w)) =>
            /\ (UnmatchedKey(pass.ev)
                  \/ (pass.ev.type = "Command" /\ pass.ev.key = "REQUEST_FOCUS"
                        /\ pass.ev.id # w))
               => ManualCallsBy(w) = {} /\ w \notin paints
            /\ pass.ev = Command("REQUEST_FOCUS", w)
               => /\ \E k \in ManualCallsBy(w) : calls[k].op = "request_focus"
                  /\ w \in paints

\* ------------------------------------------------------------------ C10
\* the Focus frames that are past the match of Focus::lifecycle on a
\* FocusChanged notification
NotifiedFrames ==
    {i \in 1..Len(stack) : /\ Kind(stack[i].w) = "Focus"
                           /\ stack[i].ev.type = "FocusChanged"
                           /\ stack[i].pc \in {"wait", "ret"}}

\* C10: a Focus wrapper that received FocusChanged(v) has is_focused = v, has
\* submitted exactly one FOCUS_NODE_FOCUS_CHANGED(v) to its own id, has
\* requested a repaint, and its child is called with an ambient focus node
\* that is the wrapper's own and carries is_focused = v.
C10_FocusChangeNotified ==
    \A i \in NotifiedFrames :
        LET w == stack[i].w
            v == stack[i].ev.val
        IN /\ focus_node[w].is_focused = v
           /\ Cardinality({k \in 1..Len(submitted) : submitted[k].by = w}) = 1
           /\ \E k \in 1..Len(submitted) :
                submitted[k] = [by |-> w, sel |-> "FOCUS_NODE_FOCUS_CHANGED",
                                val |-> v, to |-> w]
           /\ w \in paints
           /\ (i = Len(stack) - 1 /\ Top.pc = "enter")
              => ctx_focus_node = [widget_id |-> w, is_focused |-> v]

\* the child of a Focus wrapper that has just gained focus is being called
C10_Witness ==
    /\ Len(stack) >= 2 /\ Top.pc = "enter"
    /\ (Len(stack) - 1) \in NotifiedFrames
    /\ stack[Len(stack) - 1].ev.val
    /\ ctx_focus_node = [widget_id |-> stack[Len(stack) - 1].w, is_focused |-> TRUE]
    /\ owner = stack[Len(stack) - 1].w


\* ------------------------------------------------------------ TextLayout claims
\* C11: when the font does not resolve or the layout cannot be built in new or
\* update_buffer, the layout is left empty; from then on, until a measurement
\* succeeds, size() is the zero size, draw makes no drawing call and
\* update_width only stores the width, without error.
C11_EmptyOnFailure ==
    /\ text_log.failed => ~text.layout.some
    /\ text_log.empty_since =>
        /\ ~text.layout.some
        /\ text_log.op = "size" => text_log.result = SizeZero
        /\ text_log.op = "draw" => ~text_log.drew
        /\ text_log.op = "update_width" =>
              /\ ~text_log.panicked
              /\ text.buffer = text_log.pre.buffer
              /\ text.layout = text_log.pre.layout
              /\ text.width = (IF text_log.width = 0 THEN Infinity ELSE text_log.width)

C11_Witness ==
    /\ text_log.empty_since
    /\ text_log.op = "update_width"
    /\ text_log.width # 0
    /\ text.buffer # 0

\* C12: no operation of a TextLayout has a fatal error path: update_width on
\* a measured layout completes normally even when the measurement service
\* reports an error.
C12_NoFatalError == ~text_log.panicked

\* the size the text has: the layout's width and the cumulative height
\* through its last line
ExpectedSize(t) ==
    IF t.layout.some
    THEN Size2(LayoutWidth(t.layout),
               LineMetric(t.layout, LineCount(t.layout) - 1).cumulative_height)
    ELSE SizeZero

\* C13: size() returns the measured width and the cumulative height through
\* the last line, and the zero size when there is no measurement.
C13_SizeThroughLastLine ==
    text_log.op = "size" => text_log.result = ExpectedSize(text_log.pre)

\* C14: update_width(w) on a measured layout wraps the same measurement at w
\* in place, leaving the buffer alone, and when a text that fitted on one line
\* no longer fits at w the following size() is higher than one line.
C14_RewrapGrowsHeight ==
    /\ text_log.op = "update_width" /\ text_log.pre.layout.some
         /\ ~text_log.panicked =>
           /\ text.buffer = text_log.pre.buffer
           /\ text.layout = [text_log.pre.layout EXCEPT !.wrap = text.width]
    /\ text_log.op = "size" /\ text_log.wrapped => text_log.result.height > 1

\* C15: update_width on an unmeasured layout changes the stored width only; no
\* width stores +infinity; a later update_buffer measures from scratch at the
\* width most recently stored.
C15_WidthRemembered ==
    /\ text.width = text_log.stored
    /\ text_log.op = "update_width" /\ ~text_log.pre.layout.some =>
          /\ ~text_log.panicked
          /\ text.buffer = text_log.pre.buffer
          /\ text.layout = text_log.pre.layout
    /\ text_log.op = "update_width" /\ text_log.width = 0 =>
          text.width = Infinity
    /\ text_log.op = "update_buffer" =>
          /\ text.width = text_log.pre.width
          /\ text.buffer = text_log.buffer
          /\ ~text_log.failed =>
                text.layout = SomeLayout(text_log.buffer, text_log.stored)

C15_Witness ==
    /\ text_log.op = "update_buffer"
    /\ ~text_log.failed
    /\ text_log.stored_by = "update_width"
    /\ text_log.stored < text.buffer

\* C16: size() and draw leave buffer, layout and width as they were, and two
\* size() calls with no update between them return the same size.
C16_ReadsChangeNothing ==
    /\ text_log.op \in {"size", "draw"} => text = text_log.pre
    /\ text_log.agree

C16_Witness ==
    /\ text_log.op = "size"
    /\ text_log.again
    /\ text.layout.some
    /\ text.buffer # 0


\* ------------------------------------------------------------------ C17
\* C17: in every step of every pass, the widget_id of a Focus wrapper's
\* FocusNode keeps its value once it is set, and is_focused changes only in
\* the step in which that wrapper's lifecycle method handles FocusChanged.
C17_FieldStability ==
    [][\A w \in FocusIds(tree) :
         /\ focus_node[w].widget_id # 0 =>
               focus_node'[w].widget_id = focus_node[w].widget_id
         /\ focus_node'[w].is_focused # focus_node[w].is_focused =>
               /\ pass.kind = "lifecycle"
               /\ stack # <<>> /\ Top.w = w /\ Top.pc = "enter"
               /\ Top.ev.type = "FocusChanged"]_vars

\* a wrapper that holds focus has handled a pointer press
C17_Witness ==
    /\ pass.kind = "event" /\ pass.ev.type = "MouseDown"
    /\ \E w \in FocusIds(tree) :
         /\ focus_node[w].is_focused /\ focus_node[w].widget_id = w
         /\ Returned(w)
         /\ \E a \in FocusIds(tree) : IsAncestor(a, w) /\ ~focus_node[a].is_focused


\* ------------------------------------------------------------------ C18
\* the top frame is the pass method of a wrapper of kind k
StepOf(k) == phase = "run" /\ stack # <<>> /\ Kind(Top.w) = k

\* a Focus is about to react to a key chord that moves focus
MovesFocus ==
    /\ StepOf("Focus") /\ Top.pc = "ret" /\ pass.kind = "event"
    /\ ~is_handled /\ KeyReaction(Top.ev) \in {"focus_next", "focus_prev"}

\* C18: a step of a FocusScope leaves the ambient focus node alone and makes
\* no focus request, registration or repaint request; a step of a Focus
\* leaves the ambient scope alone; so a Focus under a FocusScope finds that
\* scope's node, with its id, as ambient scope when it calls focus_next or
\* focus_prev.
C18_SlotSeparation ==
    /\ [][/\ StepOf("Scope") =>
               /\ ctx_focus_node' = ctx_focus_node
               /\ pending' = pending /\ calls' = calls
               /\ registered' = registered /\ paints' = paints
          /\ StepOf("Focus") => ctx_focus_scope' = ctx_focus_scope]_vars
    /\ [](MovesFocus /\ ScopeOf(Top.w) # 0 =>
               /\ ctx_focus_scope = focus_scope_node[ScopeOf(Top.w)]
               /\ ctx_focus_scope.widget_id = ScopeOf(Top.w))

\* the Focus lies in one scope and has another one below it
C18_Witness ==
    /\ MovesFocus
    /\ ScopeOf(Top.w) # 0
    /\ \E s \in ScopeIds : IsAncestor(Top.w, s) /\ Returned(s)


\* ------------------------------------------------------------------ C19
\* C19: at every register_for_focus call made while handling WidgetAdded, the
\* ambient focus node is the caller's own FocusNode carrying the caller's id,
\* and for a caller inside a FocusScope the ambient scope node carries the id
\* of the innermost enclosing FocusScope: never no id, never another scope's.
C19_RegistrationContext ==
    \A k \in 1..Len(registered) :
        LET e == registered[k]
        IN /\ e.node = [EmptyFocusNode EXCEPT !.widget_id = e.id]
           /\ focus_node[e.id].widget_id = e.id
           /\ ScopeOf(e.id) # 0 => e.scope = ScopeOf(e.id)

\* a Focus inside two nested scopes registered after a Focus in another scope
C19_Witness ==
    \E k \in 1..Len(registered) :
        /\ ScopeOf(registered[k].id) # 0
        /\ \/ ScopeOf(ScopeOf(registered[k].id)) # 0
           \/ \E j \in 1..(k - 1) :
                 /\ registered[j].scope # 0
                 /\ registered[j].scope # registered[k].scope


\* ------------------------------------------------------------------ C20
AutoCallsBy(w) == CallsBy(w) \ ManualCallsBy(w)
CallsBelow(w) == {k \in 1..Len(calls) : IsAncestor(w, calls[k].w)}

\* C20: in an event pass the automatic request of a Focus comes before every
\* call made below it and before its own reaction, and its reaction comes
\* after every call made below it; for a pointer press every Focus the event
\* went through requests focus, an inner one before an outer one, and the
\* pass ends with focus on a Focus that has no Focus around it.
C20_RequestOrdering ==
    pass.kind = "event" =>
    /\ \A w \in FocusIds(tree) :
          /\ \A k \in AutoCallsBy(w) :
                \A j \in CallsBelow(w) \cup ManualCallsBy(w) : k < j
          /\ \A k \in ManualCallsBy(w) : \A j \in CallsBelow(w) : j < k
    /\ pass.ev.type = "MouseDown" =>
          /\ \A w \in FocusIds(tree) :
                Returned(w) => \E k \in ManualCallsBy(w) :
                                  calls[k].op = "request_focus"
          /\ EventDone /\ calls # <<>> =>
                /\ owner = calls[Len(calls)].w
                /\ ~\E a \in FocusIds(tree) : IsAncestor(a, owner)

\* a pointer press went through three Focus wrappers, one inside the other,
\* the innermost with an automatic request
C20_Witness ==
    /\ EventDone /\ pass.ev.type = "MouseDown"
    /\ \E a, b, c \in FocusIds(tree) :
          /\ IsAncestor(a, b) /\ IsAncestor(b, c)
          /\ AutoCallsBy(c) # {}
          /\ owner = a

====
